---------------------------- MODULE Spec2Model ----------------------------
(***************************************************************************)
(* GPT Trader backend: the vision path (vision_analyzer.analyze_chart_image*)
(* and the /api/analyze-image endpoint), the indicator path                *)
(* (data_analyzer.analyze and the /api/market-signal endpoint) and the     *)
(* position-size arithmetic (/api/position-size).                          *)
(*                                                                         *)
(* A state is what an observer sees between two calls: the last operation, *)
(* its inputs, its outcome, and the one piece of process-wide state, the   *)
(* MetaTrader 5 session opened by mt5.initialize and closed by             *)
(* mt5.shutdown.                                                           *)
(***************************************************************************)
EXTENDS Integers, Sequences, FiniteSets, TLC

VARIABLES op, req, resp, connected

vars == <<op, req, resp, connected>>

(***************************************************************************)
(* Bounds of the model.                                                    *)
(***************************************************************************)
\* longest OCR text that is enumerated
MaxLen == 3

(***************************************************************************)
(* Python floats.  A float is a record [k, n, d]: k = "fin" is the         *)
(* rational n/d in lowest terms (d > 0), k = "inf" is the infinity of sign *)
(* n, k = "nan" is not-a-number, and k = "none" is Python's None where a   *)
(* field is optional.  Finite arithmetic is exact: the binary rounding     *)
(* error of a double is not modelled.                                      *)
(***************************************************************************)
RECURSIVE Gcd(_, _)
Gcd(a, b) == IF b = 0 THEN a ELSE Gcd(b, a % b)

AbsInt(x) == IF x < 0 THEN -x ELSE x

SignInt(x) == IF x < 0 THEN -1 ELSE IF x > 0 THEN 1 ELSE 0

Fin(n, d) ==
    LET s == IF d < 0 THEN -1 ELSE 1
        g == Gcd(AbsInt(n), AbsInt(d))
    IN  [k |-> "fin", n |-> (s * n) \div g, d |-> (s * d) \div g]

NaN == [k |-> "nan", n |-> 0, d |-> 1]

Inf(s) == [k |-> "inf", n |-> s, d |-> 1]

None == [k |-> "none", n |-> 0, d |-> 1]

\* IEEE sign of a float that is not NaN
FSign(x) == SignInt(x.n)

\* x - y
FSub(x, y) ==
    IF x.k = "nan" \/ y.k = "nan" THEN NaN
    ELSE IF x.k = "inf" /\ y.k = "inf" THEN (IF x.n = y.n THEN NaN ELSE x)
    ELSE IF x.k = "inf" THEN x
    ELSE IF y.k = "inf" THEN Inf(-y.n)
    ELSE Fin(x.n * y.d - y.n * x.d, x.d * y.d)

\* x * y
FMul(x, y) ==
    IF x.k = "nan" \/ y.k = "nan" THEN NaN
    ELSE IF x.k = "inf" \/ y.k = "inf"
         THEN (IF FSign(x) * FSign(y) = 0 THEN NaN ELSE Inf(FSign(x) * FSign(y)))
    ELSE Fin(x.n * y.n, x.d * y.d)

\* x / y for y # 0 (Python raises ZeroDivisionError on y = 0; every caller guards it)
FDiv(x, y) ==
    IF x.k = "nan" \/ y.k = "nan" THEN NaN
    ELSE IF x.k = "inf" /\ y.k = "inf" THEN NaN
    ELSE IF x.k = "inf" THEN Inf(FSign(x) * FSign(y))
    ELSE IF y.k = "inf" THEN Fin(0, 1)
    ELSE Fin(x.n * y.d, x.d * y.n)

\* abs(x)
FAbs(x) ==
    IF x.k = "nan" THEN NaN
    ELSE IF x.k = "inf" THEN Inf(1)
    ELSE Fin(AbsInt(x.n), x.d)

\* x < y and x > y: every comparison with NaN is False
FLt(x, y) ==
    /\ x.k # "nan" /\ y.k # "nan"
    /\ IF x.k = "inf" /\ y.k = "inf" THEN x.n < y.n
       ELSE IF x.k = "inf" THEN x.n < 0
       ELSE IF y.k = "inf" THEN y.n > 0
       ELSE x.n * y.d < y.n * x.d

FGt(x, y) == FLt(y, x)

\* bool(x): zero is the one falsy float; NaN and the infinities are truthy
Truthy(x) == ~(x.k = "fin" /\ x.n = 0)

RECURSIVE Pow10(_)
Pow10(e) == IF e = 0 THEN 1 ELSE 10 * Pow10(e - 1)

\* the integer nearest to n/d (d > 0), ties to the even one
RoundHalfEven(n, d) ==
    LET q == n \div d
        r == n % d
    IN  IF 2 * r < d THEN q
        ELSE IF 2 * r > d THEN q + 1
        ELSE IF q % 2 = 0 THEN q ELSE q + 1

\* round(x, digits): a float that is not finite is returned as it is
FRound(x, digits) ==
    IF x.k # "fin" THEN x
    ELSE Fin(RoundHalfEven(x.n * Pow10(digits), x.d), Pow10(digits))

\* numpy.clip(x, lo, hi): NaN passes through
FClip(x, lo, hi) ==
    IF x.k = "nan" THEN NaN
    ELSE IF FLt(x, lo) THEN lo
    ELSE IF FGt(x, hi) THEN hi
    ELSE x

(***************************************************************************)
(* Text.  A text is a sequence of one-character strings.                   *)
(***************************************************************************)
Alphabet == {"M", "m", "1", "5", "h"}

Texts == UNION {[1..n -> Alphabet] : n \in 0..MaxLen}

\* str.upper(), character by character
UpperChar(c) == IF c = "m" THEN "M" ELSE IF c = "h" THEN "H" ELSE c

Upper(t) == [i \in DOMAIN t |-> UpperChar(t[i])]

\* w in t: substring search
Contains(t, w) ==
    \E i \in 1..(Len(t) - Len(w) + 1) : SubSeq(t, i, i + Len(w) - 1) = w

SymbolVocab ==
    << [name |-> "EURUSD", chars |-> <<"E", "U", "R", "U", "S", "D">>],
       [name |-> "XAUUSD", chars |-> <<"X", "A", "U", "U", "S", "D">>],
       [name |-> "BTCUSD", chars |-> <<"B", "T", "C", "U", "S", "D">>],
       [name |-> "GBPUSD", chars |-> <<"G", "B", "P", "U", "S", "D">>],
       [name |-> "USDJPY", chars |-> <<"U", "S", "D", "J", "P", "Y">>],
       [name |-> "NAS100", chars |-> <<"N", "A", "S", "1", "0", "0">>],
       [name |-> "SPX500", chars |-> <<"S", "P", "X", "5", "0", "0">>] >>

\* the timeframe vocabulary ordered longest token first
TimeframeVocabLongestFirst ==
    << [name |-> "M15", chars |-> <<"M", "1", "5">>],
       [name |-> "M30", chars |-> <<"M", "3", "0">>],
       [name |-> "M1",  chars |-> <<"M", "1">>],
       [name |-> "M5",  chars |-> <<"M", "5">>],
       [name |-> "H1",  chars |-> <<"H", "1">>],
       [name |-> "H4",  chars |-> <<"H", "4">>],
       [name |-> "D1",  chars |-> <<"D", "1">>] >>

TimeframeVocab ==
    << [name |-> "M1",  chars |-> <<"M", "1">>],
       [name |-> "M5",  chars |-> <<"M", "5">>],
       [name |-> "M15", chars |-> <<"M", "1", "5">>],
       [name |-> "M30", chars |-> <<"M", "3", "0">>],
       [name |-> "H1",  chars |-> <<"H", "1">>],
       [name |-> "H4",  chars |-> <<"H", "4">>],
       [name |-> "D1",  chars |-> <<"D", "1">>] >>

\* for x in vocab: if x in text.upper(): found = x; break  (found starts as None)
RECURSIVE FirstMatchFrom(_, _, _)
FirstMatchFrom(vocab, text, i) ==
    IF i > Len(vocab) THEN "None"
    ELSE IF Contains(Upper(text), vocab[i].chars) THEN vocab[i].name
    ELSE FirstMatchFrom(vocab, text, i + 1)

FirstMatch(vocab, text) == FirstMatchFrom(vocab, text, 1)

\* x or "Unknown"
OrUnknown(x) == IF x = "None" THEN "Unknown" ELSE x


(***************************************************************************)
(* Images.  A byte string is b"" ("empty"), bytes PIL cannot identify      *)
(* ("garbage"), or an encoded image ("image") of a PIL mode, carrying what *)
(* the collaborators read from it: the text pytesseract returns and the    *)
(* number of external contours cv2.findContours returns on its Canny edges.*)
(***************************************************************************)
Modes == {"RGB", "RGBA", "L", "P"}

ContourCounts == {0, 50, 51, 100, 101, 120}

EmptyBytes == [kind |-> "empty", mode |-> "-", text |-> <<>>, contours |-> 0]

GarbageBytes == [kind |-> "garbage", mode |-> "-", text |-> <<>>, contours |-> 0]

ImageBytes ==
    [kind : {"image"}, mode : Modes, text : Texts, contours : ContourCounts]

Bytes == {EmptyBytes, GarbageBytes} \cup ImageBytes

\* A str argument: kind "none" is None, "empty" is "", "b64" is base64 text of
\* `payload`, with a "data:...;base64," prefix when dataurl, and with a length
\* binascii accepts when padding_ok.  Kind "pil" is a PIL.Image.Image object.
NoB64 == [kind |-> "none", dataurl |-> FALSE, padding_ok |-> TRUE, payload |-> EmptyBytes]

EmptyStr == [kind |-> "empty", dataurl |-> FALSE, padding_ok |-> TRUE, payload |-> EmptyBytes]

B64Strings ==
    [kind : {"b64"}, dataurl : BOOLEAN, padding_ok : {TRUE}, payload : Bytes]
    \cup [kind : {"b64"}, dataurl : BOOLEAN, padding_ok : {FALSE},
          payload : {EmptyBytes, GarbageBytes}]

PilImage(b) == [kind |-> "pil", dataurl |-> FALSE, padding_ok |-> TRUE, payload |-> b]

\* the outcome of a call: a value, or the name of the exception it raises
Return(v) == [raised |-> "-", value |-> v]

Raise(e, v) == [raised |-> e, value |-> v]

\* base64.b64decode(s): TypeError unless s is str or bytes-like; binascii.Error on
\* bad padding; characters outside the base64 alphabet are discarded, but those of a
\* data-URL prefix ("data", "image/png", "base64") are in it and decode to leading
\* bytes that are no image header.
b64decode(s) ==
    IF s.kind \in {"pil", "none"} THEN Raise("TypeError", EmptyBytes)
    ELSE IF s.kind = "empty" THEN Return(EmptyBytes)
    ELSE IF ~s.padding_ok THEN Raise("binascii.Error", EmptyBytes)
    ELSE IF s.dataurl THEN Return(GarbageBytes)
    ELSE Return(s.payload)

\* PIL.Image.open(io.BytesIO(b))
ImageOpen(b) ==
    IF b.kind = "image" THEN Return(b) ELSE Raise("UnidentifiedImageError", b)

\* cv2.cvtColor(np.array(image), cv2.COLOR_RGB2BGR) needs 3 or 4 channels
cvtColor_RGB2BGR(im) ==
    IF im.mode \in {"RGB", "RGBA"} THEN Return(im) ELSE Raise("cv2.error", im)

(***************************************************************************)
(* vision_analyzer.analyze_chart_image                                     *)
(***************************************************************************)
ClassifyPattern(n) ==
    IF n > 50 THEN "Double Bottom"
    ELSE IF n > 100 THEN "Head and Shoulders"
    ELSE "Neutral"

PatternSignal(pattern) ==
    IF pattern = "Double Bottom" THEN "LONG"
    ELSE IF pattern = "Head and Shoulders" THEN "SHORT"
    ELSE "NEUTRAL"

VisionConfidence(signal) == IF signal # "NEUTRAL" THEN Fin(75, 1) ELSE Fin(50, 1)

\* the dict built from the OCR text and the contour count
VisionResult(im) ==
    LET symbol    == FirstMatch(SymbolVocab, im.text)
        timeframe == FirstMatch(TimeframeVocab, im.text)
        pattern   == ClassifyPattern(im.contours)
        signal    == PatternSignal(pattern)
    IN  [symbol     |-> OrUnknown(symbol),
         timeframe  |-> OrUnknown(timeframe),
         signal     |-> signal,
         pattern    |-> pattern,
         confidence |-> VisionConfidence(signal),
         reason     |-> <<"Deteccion de patron", pattern, "y texto", symbol, "/", timeframe>>,
         warnings   |-> <<>>]

NoResult ==
    [symbol |-> "-", timeframe |-> "-", signal |-> "-", pattern |-> "-",
     confidence |-> None, reason |-> <<>>, warnings |-> <<>>]

analyze_chart_image(image_b64) ==
    LET decoded == b64decode(image_b64)
        opened  == ImageOpen(decoded.value)
        img_cv  == cvtColor_RGB2BGR(opened.value)
    IN  IF decoded.raised # "-" THEN Raise(decoded.raised, NoResult)
        ELSE IF opened.raised # "-" THEN Raise(opened.raised, NoResult)
        ELSE IF img_cv.raised # "-" THEN Raise(img_cv.raised, NoResult)
        ELSE Return(VisionResult(img_cv.value))

(***************************************************************************)
(* main.analyze_image: POST /api/analyze-image                             *)
(***************************************************************************)
NoFile == [kind |-> "nofile", mode |-> "-", text |-> <<>>, contours |-> 0]

\* "," in s and ";base64" in s: the prefix is cut off before decoding
decode_b64_image(s) ==
    b64decode(IF s.kind = "b64" /\ s.dataurl THEN [s EXCEPT !.dataurl = FALSE] ELSE s)

\* Image.open, then convert("RGB") unless the mode is RGB or L
ensure_pillow_image(img_bytes) ==
    LET opened == ImageOpen(img_bytes)
        im     == opened.value
    IN  IF opened.raised # "-" THEN opened
        ELSE IF im.mode \notin {"RGB", "RGBA", "L"} THEN Return([im EXCEPT !.mode = "RGB"])
        ELSE IF im.mode = "RGBA" THEN Return([im EXCEPT !.mode = "RGB"])
        ELSE Return(im)

MissingImageResponse ==
    [signal |-> "NEUTRAL", pattern |-> "None", confidence |-> Fin(0, 1),
     reason |-> <<"No se recibio archivo ni image_b64.">>,
     warnings |-> <<"missing_image">>]

VisionErrorResponse(e) ==
    [signal |-> "ERROR", pattern |-> "None", confidence |-> None,
     reason |-> <<"Error interno en vision_analyzer", e>>,
     warnings |-> <<"vision_analyzer fallo">>]

\* the decode failure answered with the direction of the inner handler
DecodeErrorResponseAsError(e) ==
    [signal |-> "ERROR", pattern |-> "None", confidence |-> None,
     reason |-> <<"Error al procesar la imagen", e>>,
     warnings |-> <<"image_decode_error">>]

DecodeErrorResponse(e) ==
    [signal |-> "NEUTRAL", pattern |-> "None", confidence |-> Fin(0, 1),
     reason |-> <<"Error al procesar la imagen", e>>,
     warnings |-> <<"image_decode_error">>]

\* response_model=SignalResponse keeps the fields of the model
SignalResponse(r) ==
    [signal |-> r.signal, pattern |-> r.pattern, confidence |-> r.confidence,
     reason |-> r.reason, warnings |-> r.warnings]

analyze_image(file, image_b64_json) ==
    LET decoded   == IF file.kind # "nofile" THEN Return(file)
                     ELSE IF image_b64_json.kind \in {"none", "empty"} THEN Return(EmptyBytes)
                     ELSE decode_b64_image(image_b64_json)
        img_bytes == decoded.value
        pil_img   == ensure_pillow_image(img_bytes)
        result    == analyze_chart_image(PilImage(pil_img.value))
    IN  IF decoded.raised # "-" THEN DecodeErrorResponse(decoded.raised)
        ELSE IF img_bytes.kind = "empty" THEN MissingImageResponse
        ELSE IF pil_img.raised # "-" THEN DecodeErrorResponse(pil_img.raised)
        ELSE IF result.raised # "-" THEN VisionErrorResponse(result.raised)
        ELSE SignalResponse(result.value)


(***************************************************************************)
(* data_analyzer: connect_mt5, fetch_data, analyze                         *)
(*                                                                         *)
(* The environment of a call says whether `import data_analyzer` (and the  *)
(* MetaTrader5, pandas, numpy and ta it imports) succeeds, whether         *)
(* mt5.initialize() succeeds, how many bars mt5.copy_rates_from_pos        *)
(* returns (0: None or an empty array) and the last row of the indicator   *)
(* columns.  ta leaves an indicator NaN until the series is as long as its *)
(* window (fillna=False), so a column is NaN when the bars are fewer.      *)
(***************************************************************************)
Ema20Window == 20

Ema200Window == 200

RsiWindow == 14

\* ta.trend.MACD defaults: window_slow=26, window_fast=12, window_sign=9
MacdSlowWindow == 26

MacdSignWindow == 9

BarCounts == {0, 13, 14, 20, 26, 34, 199, 200, 500}

PriceSamples == {Fin(12000, 10000), Fin(12050, 10000)}

MacdSamples == {Fin(1, 1000), Fin(2, 1000)}

RsiSamples ==
    {Fin(0, 1), Fin(20, 1), Fin(30, 1), Fin(6249, 200), Fin(50, 1), Fin(55, 1),
     Fin(6999, 100), Fin(70, 1), Fin(100, 1)}

Calls == {[symbol |-> "EURUSD", timeframe |-> "H1"],
          [symbol |-> "XAUUSD", timeframe |-> "M30"]}

\* the last row of the frame, each column NaN while its window is not filled
Latest(bars, ema20, ema200, rsi, macd, macd_signal) ==
    [ema20       |-> IF bars >= Ema20Window THEN ema20 ELSE NaN,
     ema200      |-> IF bars >= Ema200Window THEN ema200 ELSE NaN,
     rsi         |-> IF bars >= RsiWindow THEN rsi ELSE NaN,
     macd        |-> IF bars >= MacdSlowWindow THEN macd ELSE NaN,
     macd_signal |-> IF bars >= MacdSlowWindow + MacdSignWindow - 1
                     THEN macd_signal ELSE NaN]

NoLatest == Latest(0, NaN, NaN, NaN, NaN, NaN)

Env(import, init_ok, bars, latest) ==
    [import |-> import, init_ok |-> init_ok, bars |-> bars, latest |-> latest]

Envs ==
    {Env(i, TRUE, 0, NoLatest) : i \in {"ModuleNotFoundError", "ImportError"}}
    \cup {Env("ok", FALSE, 0, NoLatest), Env("ok", TRUE, 0, NoLatest)}
    \cup {Env("ok", TRUE, b, Latest(b, e20, e200, r, m, ms)) :
            b \in BarCounts \ {0}, e20 \in PriceSamples, e200 \in PriceSamples,
            r \in RsiSamples, m \in MacdSamples, ms \in MacdSamples}

\* mt5.initialize() failing raises
connect_mt5(env) ==
    IF ~env.init_ok THEN Raise("Exception", <<"No se pudo conectar con MetaTrader 5">>)
    ELSE Return(<<>>)

\* tf_map.get(timeframe, mt5.TIMEFRAME_H1)
TfMap(timeframe) ==
    IF timeframe \in {"M1", "M5", "M15", "H1", "H4", "D1"} THEN timeframe ELSE "H1"

\* rates is None or len(rates) == 0 raises; otherwise the frame of the bars
fetch_data(symbol, timeframe, env) ==
    IF env.bars = 0 THEN Raise("Exception", <<"No se pudieron obtener velas para", symbol>>)
    ELSE Return([tf |-> TfMap(timeframe), bars |-> env.bars, latest |-> env.latest])

\* Decide with the overbought bound taken inclusive (rsi <= 70)
DecideInclusive(trend_up, macd_up, rsi_val) ==
    IF trend_up /\ macd_up /\ ~FGt(rsi_val, Fin(70, 1))
    THEN [signal |-> "LONG", reason |-> "Cruce EMA + MACD alcista"]
    ELSE IF ~trend_up /\ ~macd_up /\ FGt(rsi_val, Fin(30, 1))
    THEN [signal |-> "SHORT", reason |-> "Cruce EMA bajista + MACD negativo"]
    ELSE [signal |-> "NEUTRAL", reason |-> "Condiciones mixtas"]

Decide(trend_up, macd_up, rsi_val) ==
    IF trend_up /\ macd_up /\ FLt(rsi_val, Fin(70, 1))
    THEN [signal |-> "LONG", reason |-> "Cruce EMA + MACD alcista"]
    ELSE IF ~trend_up /\ ~macd_up /\ FGt(rsi_val, Fin(30, 1))
    THEN [signal |-> "SHORT", reason |-> "Cruce EMA bajista + MACD negativo"]
    ELSE [signal |-> "NEUTRAL", reason |-> "Condiciones mixtas"]

\* float(np.clip(abs(rsi_val - 50) / 50, 0, 1))
IndicatorConfidence(rsi_val) ==
    FClip(FDiv(FAbs(FSub(rsi_val, Fin(50, 1))), Fin(50, 1)), Fin(0, 1), Fin(1, 1))

AnalysisResult(symbol, timeframe, latest) ==
    LET trend_up == FGt(latest.ema20, latest.ema200)
        rsi_val  == latest.rsi
        macd_up  == FGt(latest.macd, latest.macd_signal)
        decision == Decide(trend_up, macd_up, rsi_val)
    IN  [symbol     |-> symbol,
         timeframe  |-> timeframe,
         signal     |-> decision.signal,
         confidence |-> FRound(IndicatorConfidence(rsi_val), 2),
         reason     |-> decision.reason,
         rsi        |-> FRound(rsi_val, 2),
         ema20      |-> FRound(latest.ema20, 5),
         ema200     |-> FRound(latest.ema200, 5)]

NoAnalysis ==
    [symbol |-> "-", timeframe |-> "-", signal |-> "-", confidence |-> None,
     reason |-> "-", rsi |-> None, ema20 |-> None, ema200 |-> None]

\* The outcome of analyze and the state it leaves the MetaTrader 5 session in:
\* mt5.shutdown() is the last statement before the return and nothing else closes
\* the session, so an exception raised after connect_mt5 leaves it open.
analyze(symbol, timeframe, env) ==
    LET conn == connect_mt5(env)
        df   == fetch_data(symbol, timeframe, env)
    IN  IF conn.raised # "-"
        THEN [raised |-> conn.raised, msg |-> conn.value, value |-> NoAnalysis,
              session |-> FALSE]
        ELSE IF df.raised # "-"
        THEN [raised |-> df.raised, msg |-> df.value, value |-> NoAnalysis,
              session |-> TRUE]
        ELSE [raised |-> "-", msg |-> <<>>,
              value |-> AnalysisResult(symbol, timeframe, df.value.latest),
              session |-> FALSE]

(***************************************************************************)
(* main.market_signal: GET /api/market-signal                              *)
(***************************************************************************)
SimulatedResponse(symbol, timeframe) ==
    [ok      |-> TRUE,
     data    |-> [symbol |-> symbol, timeframe |-> timeframe, signal |-> "LONG",
                  confidence |-> Fin(8, 10),
                  reason |-> "Simulacion: EMA200 y RSI alcistas",
                  rsi |-> None, ema20 |-> None, ema200 |-> None],
     error   |-> <<>>,
     warning |-> "Modulo data_analyzer no encontrado; usando simulacion."]

\* the failure answered with ok: True
MarketErrorResponseOk(e, msg) ==
    [ok |-> TRUE, data |-> NoAnalysis, error |-> <<e>> \o msg, warning |-> "-"]

\* {"ok": False, "error": str(e)}
MarketErrorResponse(e, msg) ==
    [ok |-> FALSE, data |-> NoAnalysis, error |-> <<e>> \o msg, warning |-> "-"]

market_signal(symbol, timeframe, env) ==
    LET result == analyze(symbol, timeframe, env)
    IN  IF env.import = "ModuleNotFoundError" THEN SimulatedResponse(symbol, timeframe)
        ELSE IF env.import # "ok" THEN MarketErrorResponse(env.import, <<>>)
        ELSE IF result.raised # "-" THEN MarketErrorResponse(result.raised, result.msg)
        ELSE [ok |-> TRUE, data |-> result.value, error |-> <<>>, warning |-> "-"]

(***************************************************************************)
(* main.position_size: GET /api/position-size                              *)
(***************************************************************************)
BalanceSamples == {Fin(0, 1), Fin(1, 2), Fin(1000, 1), Fin(10000, 1), Inf(1), NaN}

RiskSamples == {Fin(0, 1), Fin(1, 2), Fin(1, 1), Inf(1)}

LevelSamples == {Fin(0, 1), Fin(12300, 10000), Fin(12345, 10000), Inf(1), Inf(-1), NaN}

position_size(account_balance, risk_percent, entry, stop) ==
    LET risk_amount   == FMul(account_balance, FDiv(risk_percent, Fin(100, 1)))
        risk_per_unit == FAbs(FSub(entry, stop))
        size          == IF Truthy(risk_per_unit) THEN FDiv(risk_amount, risk_per_unit)
                         ELSE Fin(0, 1)
    IN  [size |-> FRound(size, 4), risk_amount |-> FRound(risk_amount, 2)]

(***************************************************************************)
(* The state machine.  A call is taken when no response is pending and is  *)
(* run to its end in one step; Deliver hands the pending response to the   *)
(* caller.  No handler reads op, req or resp, so the outcomes a handler    *)
(* can produce are those it produces from the idle states.                 *)
(***************************************************************************)
Idle == op = "idle"

Init ==
    /\ op = "idle"
    /\ req = <<>>
    /\ resp = <<>>
    /\ connected = FALSE

\* a direct call of vision_analyzer.analyze_chart_image with a str argument
AnalyzeChartImage ==
    /\ Idle
    /\ \E s \in B64Strings \cup {EmptyStr} :
        /\ op' = "analyze_chart_image"
        /\ req' = [image_b64 |-> s]
        /\ resp' = analyze_chart_image(s)
        /\ UNCHANGED connected

ImageRequests ==
    {[file |-> b, image_b64_json |-> NoB64] : b \in Bytes}
    \cup {[file |-> NoFile, image_b64_json |-> s] : s \in B64Strings \cup {NoB64, EmptyStr}}
    \cup {[file |-> b, image_b64_json |-> s] :
            b \in {EmptyBytes, GarbageBytes}, s \in {EmptyStr} \cup
            [kind : {"b64"}, dataurl : {FALSE}, padding_ok : BOOLEAN, payload : {GarbageBytes}]}

AnalyzeImage ==
    /\ Idle
    /\ \E r \in ImageRequests :
        /\ op' = "analyze_image"
        /\ req' = r
        /\ resp' = analyze_image(r.file, r.image_b64_json)
        /\ UNCHANGED connected

\* a direct call of data_analyzer.analyze
Analyze ==
    /\ Idle
    /\ \E c \in Calls, env \in {e \in Envs : e.import = "ok"} :
        LET out == analyze(c.symbol, c.timeframe, env)
        IN  /\ op' = "analyze"
            /\ req' = [symbol |-> c.symbol, timeframe |-> c.timeframe, env |-> env]
            /\ resp' = [raised |-> out.raised, msg |-> out.msg, value |-> out.value]
            /\ connected' = out.session

MarketSignal ==
    /\ Idle
    /\ \E c \in Calls, env \in Envs :
        /\ op' = "market_signal"
        /\ req' = [symbol |-> c.symbol, timeframe |-> c.timeframe, env |-> env]
        /\ resp' = market_signal(c.symbol, c.timeframe, env)
        /\ connected' = IF env.import = "ok"
                        THEN analyze(c.symbol, c.timeframe, env).session
                        ELSE connected

PositionSize ==
    /\ Idle
    /\ \E b \in BalanceSamples, r \in RiskSamples, e \in LevelSamples, s \in LevelSamples :
        /\ op' = "position_size"
        /\ req' = [account_balance |-> b, risk_percent |-> r, entry |-> e, stop |-> s]
        /\ resp' = position_size(b, r, e, s)
        /\ UNCHANGED connected

Deliver ==
    /\ ~Idle
    /\ op' = "idle"
    /\ req' = <<>>
    /\ resp' = <<>>
    /\ UNCHANGED connected

Next ==
    \/ AnalyzeChartImage
    \/ AnalyzeImage
    \/ Analyze
    \/ MarketSignal
    \/ PositionSize
    \/ Deliver

Spec == Init /\ [][Next]_vars


(***************************************************************************)
(* The claims.                                                             *)
(***************************************************************************)
\* what each operation hands back when it returns a signal
VisionReturned == op = "analyze_chart_image" /\ resp.raised = "-"

AnalyzeReturned == op = "analyze" /\ resp.raised = "-"

MarketAnswered == op = "market_signal" /\ resp.ok

\* the dict analyze built, whether called directly or through market_signal
IndicatorComputed ==
    \/ AnalyzeReturned
    \/ MarketAnswered /\ req.env.import = "ok"

IndicatorResult == IF op = "analyze" THEN resp.value ELSE resp.data

InUnitInterval(c) == c.k = "fin" /\ 0 <= c.n /\ c.n <= c.d

\* C1: the confidence of every signal either synthesis path produces, the
\* responses of analyze_image and market_signal included, lies in [0,1].
C1_ConfidenceInUnitInterval ==
    /\ VisionReturned => InUnitInterval(resp.value.confidence)
    /\ (op = "analyze_image" /\ resp.confidence # None)
          => InUnitInterval(resp.confidence)
    /\ AnalyzeReturned => InUnitInterval(resp.value.confidence)
    /\ MarketAnswered => InUnitInterval(resp.data.confidence)

\* the classification policy the specification states
ThresholdPolicy(n) ==
    IF n > 100 THEN "Head and Shoulders"
    ELSE IF n > 50 THEN "Double Bottom"
    ELSE "Neutral"

\* C2: a contour count n is classified "Head and Shoulders" when n > 100,
\* otherwise "Double Bottom" when n > 50, otherwise "Neutral".
C2_ThresholdClassification ==
    VisionReturned =>
        resp.value.pattern = ThresholdPolicy(req.image_b64.payload.contours)

\* the bytes analyze_image works on are not empty and are not an image
Undecodable ==
    /\ op = "analyze_image"
    /\ \/ req.file.kind = "garbage"
       \/ /\ req.file.kind = "nofile"
          /\ req.image_b64_json.kind = "b64"
          /\ req.image_b64_json.payload.kind = "garbage"

IndicatorCall ==
    /\ op \in {"analyze", "market_signal"}
    /\ req.env.import = "ok"
    /\ req.env.init_ok

IndicatorDirection ==
    IF op = "analyze"
    THEN (IF resp.raised = "-" THEN resp.value.signal ELSE "raised")
    ELSE (IF resp.ok THEN resp.data.signal ELSE "error")

\* C4: with fewer bars than the largest indicator window (200) the indicator
\* path never yields LONG or SHORT: it is NEUTRAL or an explicit error.
C4_ShortSeriesNeverDirectional ==
    (IndicatorCall /\ req.env.bars < Ema200Window)
        => IndicatorDirection \notin {"LONG", "SHORT"}

\* C5: the direction is LONG exactly when trend_up, macd_up and rsi < 70, SHORT
\* exactly when neither trend_up nor macd_up and rsi > 30, NEUTRAL otherwise; the
\* two conditions exclude each other and the reason is fixed by the direction.
C5_DirectionDecision ==
    IndicatorComputed =>
        LET l        == req.env.latest
            trend_up == FGt(l.ema20, l.ema200)
            macd_up  == FGt(l.macd, l.macd_signal)
            long     == trend_up /\ macd_up /\ FLt(l.rsi, Fin(70, 1))
            short    == ~trend_up /\ ~macd_up /\ FGt(l.rsi, Fin(30, 1))
            r        == IndicatorResult
        IN  /\ ~(long /\ short)
            /\ (r.signal = "LONG") <=> long
            /\ (r.signal = "SHORT") <=> short
            /\ (r.signal = "NEUTRAL") <=> (~long /\ ~short)
            /\ r.signal = "LONG" => r.reason = "Cruce EMA + MACD alcista"
            /\ r.signal = "SHORT" => r.reason = "Cruce EMA bajista + MACD negativo"
            /\ r.signal = "NEUTRAL" => r.reason = "Condiciones mixtas"

C5_Witness ==
    /\ MarketAnswered
    /\ req.env.import = "ok"
    /\ req.env.latest.rsi = Fin(6999, 100)
    /\ resp.data.signal = "LONG"

\* entry == stop as Python compares floats: NaN equals nothing, itself included
FEq(x, y) == x.k # "nan" /\ y.k # "nan" /\ x = y

IsFin(x) == x.k = "fin"

\* C6: position_size returns size 0 whenever entry == stop, for any balance and
\* risk percent, and risk_amount is account_balance * risk_percent / 100
\* (to 2 decimals) in that case too.
C6_ZeroSizeWhenEntryEqualsStop ==
    (op = "position_size" /\ FEq(req.entry, req.stop)) =>
        /\ resp.size = Fin(0, 1)
        /\ resp.risk_amount =
              FRound(FDiv(FMul(req.account_balance, req.risk_percent), Fin(100, 1)), 2)

\* C6 on finite levels: the same statement with entry and stop finite numbers.
C6_ZeroSizeWhenFiniteEntryEqualsStop ==
    (op = "position_size" /\ FEq(req.entry, req.stop) /\ IsFin(req.entry)) =>
        /\ resp.size = Fin(0, 1)
        /\ resp.risk_amount =
              FRound(FDiv(FMul(req.account_balance, req.risk_percent), Fin(100, 1)), 2)

\* the bytes analyze_image works on are an image PIL opens
Decodable ==
    /\ op = "analyze_image"
    /\ \/ req.file.kind = "image"
       \/ /\ req.file.kind = "nofile"
          /\ req.image_b64_json.kind = "b64"
          /\ req.image_b64_json.padding_ok
          /\ req.image_b64_json.payload.kind = "image"

\* C7: when the image decodes, the response is the vision analyzer's result:
\* LONG for "Double Bottom", SHORT for "Head and Shoulders", NEUTRAL otherwise,
\* and never ERROR.
C7_DecodedImageRelayed ==
    Decodable =>
        /\ resp.signal # "ERROR"
        /\ resp.signal = (IF resp.pattern = "Double Bottom" THEN "LONG"
                          ELSE IF resp.pattern = "Head and Shoulders" THEN "SHORT"
                          ELSE "NEUTRAL")

\* the price-series collaborator fails: import, connection or bars
CollaboratorFails ==
    /\ op = "market_signal"
    /\ \/ req.env.import # "ok"
       \/ ~req.env.init_ok
       \/ req.env.bars = 0

\* C8 as stated: every failure of the price-series collaborator is answered
\* ok: false with a cause string, never ok: true with LONG or SHORT.
C8_FailuresAreStructuredErrors ==
    CollaboratorFails =>
        /\ ~resp.ok
        /\ resp.error # <<>>

\* C8 as amended: every failure is answered ok: false with a cause string, except
\* a module that cannot be found (data_analyzer or one it imports), which is
\* answered ok: true with the simulated LONG signal and a warning.
C8_FailuresExceptMissingModule ==
    CollaboratorFails =>
        IF req.env.import = "ModuleNotFoundError"
        THEN /\ resp.ok
             /\ resp.data.signal = "LONG"
             /\ resp.warning # "-"
        ELSE /\ ~resp.ok
             /\ resp.error # <<>>

C8_Witness ==
    /\ CollaboratorFails
    /\ req.env.import = "ok"
    /\ ~req.env.init_ok
    /\ ~resp.ok
    /\ resp.error = <<"Exception", "No se pudo conectar con MetaTrader 5">>

\* C9: a call of analyze that opens the MetaTrader 5 session closes it before
\* it ends, on every path: after the call the session is closed.
C9_SessionClosedAfterAnalyze == IndicatorCall => ~connected

M15 == <<"M", "1", "5">>

=============================================================================
